---------------------------- MODULE Spec2Model ----------------------------
(***************************************************************************)
(* Model of the video analysis service (src/app/main.py, models.py,       *)
(* database.py): the job table, the files the handlers create and remove, *)
(* the background execution process_video_job of every submitted job, and *)
(* the request handlers that run concurrently with it.                    *)
(*                                                                         *)
(* The background execution is cut into one action per store access or    *)
(* external call, so that the handlers served by the thread pool          *)
(* (delete_job) interleave with it between any two of them.               *)
(*                                                                         *)
(* Spec lets the splitter, the analysis capability, the report write, the *)
(* upload write and the file removals fail, and has every store access    *)
(* return. SpecStoreFault adds store accesses that raise. SpecQueries     *)
(* adds clients that query the status and list the jobs. SpecTwoJobs runs *)
(* two submits and their executions side by side, SpecSubmit sends files  *)
(* of every kind to the validation, SpecAggregate calls                   *)
(* create_consolidated_report on lists of summaries of every length,      *)
(* SpecList lists two jobs with every skip, limit and filter, and         *)
(* SpecSegment has chunk_video_with_ffmpeg list up to 1002 chunk files.   *)
(***************************************************************************)
EXTENDS Integers, Sequences, FiniteSets, TLC

VARIABLES
    store,       \* the jobs table: job id -> row, for the ids that have a row
    uploads,     \* ids whose uploaded video file exists under uploads/
    reports,     \* id -> content of reports/<id>_report.txt (NoFile: absent)
    chunk_dirs,  \* ids whose directory chunks/<id> exists
    chunks,      \* id -> numbers of the chunk_NNN.mp4 files in chunks/<id>
    task,        \* id -> locals and position of process_video_job(id, ...)
    del,         \* id -> position of the delete_job(id) request being served, or how
                 \* the last one ended ("idle": none was made so far)
    found,       \* id -> the status of the row that the delete_job(id) request read
                 \* at line 171 (None: no request has read a row)
    analyzed,    \* id -> the calls of analyze_video_chunk_with_gemini so far, in order
    now,         \* the wall clock read by datetime.utcnow() / datetime.now()
    fresh,       \* the ids uuid.uuid4() has yet to return
    sub,         \* id -> position of the create_analysis_job request that drew the
                 \* id, and the file it was sent
    resp,        \* the response a request handler sent last
    offered,     \* the files clients send to POST /v1/analyze
    summaries_in,  \* the argument of the calls of create_consolidated_report
                   \* made on their own (SpecAggregate)
    reports_out,   \* ... and what these calls returned, in order
    produced,      \* the number of chunk files a run of the splitter made on its
                   \* own wrote (SpecSegment)
    chunk_list     \* ... and the list chunk_video_with_ffmpeg returned for them
                   \* (None: not called yet)

files == <<uploads, reports, chunk_dirs, chunks>>
requests == <<sub, resp>>
aggregation == <<summaries_in, reports_out>>
segmentation == <<produced, chunk_list>>
vars == <<store, uploads, reports, chunk_dirs, chunks, task, del, found, analyzed, now,
          fresh,
          sub, resp, offered, summaries_in, reports_out, produced, chunk_list>>

---------------------------------------------------------------------------
(* Bounds of the model *)

\* most segment files one run of the splitter leaves in a job's directory
MaxChunks == 3
\* the clock stops advancing at this value
MaxClock == 2

\* job identifiers (uuid4 values, main.py line 63)
JobIds == {"j1", "j2"}

---------------------------------------------------------------------------
(* Values *)

\* Python None for a nullable column or an absent file; Some(x) a present value
None == <<>>
Some(x) == <<x>>
NoFile == <<>>

\* an exception, by the text str(e) gives: a format, the chunk number the
\* format embeds (0 when it embeds none) and the text of its cause
Exc(fmt, n, cause) == [fmt |-> fmt, n |-> n, cause |-> cause]
NoExc == Exc("", 0, "")

\* str(e), main.py lines 246 and 279
str(e) == e

\* what makes the external analysis capability or the read of the chunk fail
NoSuchFile == "[Errno 2] No such file or directory"
CapabilityError == "capability error"

\* stderr of a failed splitter run
FfmpegStderr == "ffmpeg stderr"

---------------------------------------------------------------------------
(* The uploaded file and its validation, main.py lines 42-60 *)

\* an UploadFile. A filename is the sequence of its pieces between dots
\* ("clip.mp4" is <<"clip", "mp4">>, ".mp4" is <<"", "mp4">>), a content type
\* the sequence of its pieces between slashes; <<>> is None or "", which the
\* code does not tell apart. size is the number of bytes sent.
UploadFile(filename, content_type, size) ==
    [filename |-> filename, content_type |-> content_type, size |-> size]

NoUpload == UploadFile(<<>>, <<>>, 0)

\* the file names, content types and sizes clients send
Filenames ==
    { <<>>, <<"clip", "mp4">>, <<"clip", "MP4">>, <<"clip", "txt">>, <<"clip">>,
      <<"", "mp4">>, <<"clip", "mp4", "txt">> }
ContentTypes == { <<>>, <<"video", "mp4">>, <<"text", "plain">>, <<"video">> }
Sizes == {0, 1}
Files == {UploadFile(n, c, z) : n \in Filenames, c \in ContentTypes, z \in Sizes}

\* a video file as a well-behaved client sends it
Clip == UploadFile(<<"clip", "mp4">>, <<"video", "mp4">>, 1)

\* str.lower() of a piece of a name
lower(s) == IF s = "MP4" THEN "mp4" ELSE IF s = "TXT" THEN "txt" ELSE s

\* Path(name).suffix without its dot: with i the index of the last dot,
\* name[i:] if 0 < i < len(name) - 1, else ""
suffix(name) ==
    LET n == Len(name)
    IN IF n >= 2 /\ name[n] # "" /\ (n > 2 \/ name[1] # "") THEN name[n] ELSE ""

\* line 45, the extensions without their dot
valid_video_extensions == {"mp4", "avi", "mov", "mkv", "wmv", "flv", "webm", "m4v"}

\* line 48
file_extension(file) ==
    IF file.filename # <<>> THEN lower(suffix(file.filename)) ELSE ""

\* line 51
is_video_by_extension(file) == file_extension(file) \in valid_video_extensions

\* file.content_type.startswith("video/")
startswith_video(content_type) == Len(content_type) >= 2 /\ content_type[1] = "video"

\* line 54
is_video_by_content(file) ==
    file.content_type # <<>> /\ startswith_video(file.content_type)

\* a validation that wants both signs of a video
Accepted_Both(file) == is_video_by_extension(file) /\ is_video_by_content(file)

\* line 56, negated: the file passes the validation
Accepted(file) == is_video_by_extension(file) \/ is_video_by_content(file)

---------------------------------------------------------------------------
(* models.py: a row of the jobs table *)

\* a row created as already being processed
Job_Processing(id, t, file) ==
    [ id               |-> id,
      status           |-> "PROCESSING",
      created_at       |-> t,
      updated_at       |-> t,
      video_path       |-> id,
      video_filename   |-> file.filename,
      video_size       |-> file.size,
      report           |-> None,
      error            |-> None,
      chunks_processed |-> 0,
      total_chunks     |-> 0 ]

\* main.py lines 80-91, with the defaults of models.py
Job(id, t, file) ==
    [ id               |-> id,
      status           |-> "PENDING",
      created_at       |-> t,
      updated_at       |-> t,
      video_path       |-> id,
      video_filename   |-> file.filename,
      video_size       |-> file.size,
      report           |-> None,
      error            |-> None,
      chunks_processed |-> 0,
      total_chunks     |-> 0 ]

\* db.query(Job).filter(Job.id == job_id).first() is not None
HasRow(j) == j \in DOMAIN store

\* onupdate set on both timestamp columns
Commit_StampsBoth(j, row) ==
    [k \in DOMAIN store |->
        IF k = j THEN [row EXCEPT !.updated_at = now, !.created_at = now] ELSE store[k]]

\* a commit without the onupdate of updated_at
Commit_NoStamp(j, row) == [k \in DOMAIN store |-> IF k = j THEN row ELSE store[k]]

\* db.commit() of a changed row: the columns written, and updated_at by its
\* onupdate (models.py line 13)
Commit(j, row) == [k \in DOMAIN store |-> IF k = j THEN [row EXCEPT !.updated_at = now] ELSE store[k]]

\* db.add(db_job); db.commit(), main.py lines 94-95
Insert(j, row) == [k \in DOMAIN store \cup {j} |-> IF k = j THEN row ELSE store[k]]

\* db.delete(db_job); db.commit(), main.py lines 193-194
DeleteRow(j) == [k \in DOMAIN store \ {j} |-> store[k]]


---------------------------------------------------------------------------
(* Summaries and the report text *)

\* a summary: the text the analysis capability returned for the chunk file
\* numbered n (fmt "text"), or the placeholder of main.py line 246, which
\* embeds the chunk number n and str(e)
Summary(fmt, n, e) == [fmt |-> fmt, n |-> n, e |-> e]

\* response.text.strip() for the chunk file numbered f, main.py lines 329-330
AnalysisText(f) == Summary("text", f, NoExc)

\* raise Exception(f"Failed to analyze chunk {chunk_number}: {str(e)}"), line 333
AnalyzeError(chunk_number, cause) == Exc("Failed to analyze chunk {n}: {cause}", chunk_number, cause)

\* the placeholder naming the loop index instead of the chunk number
FailedSummary_ZeroBased(i, e) == Summary("Error processing chunk {n}: {e}", i, str(e))

\* f"Error processing chunk {i+1}: {str(e)}", main.py line 246
FailedSummary(i, e) == Summary("Error processing chunk {n}: {e}", i + 1, str(e))

\* the report is header + "\n".join(detailed_sections) + footer: a sequence of
\* parts, each a header, a segment section or a footer
Part(part, index, from, to, total, generated, body) ==
    [ part |-> part, index |-> index, from |-> from, to |-> to,
      total |-> total, generated |-> generated, body |-> body ]

\* minutes per segment in the section labels, main.py line 355
SegmentMinutes == 5

\* main.py lines 337-350
report_header(summaries, t) == Part("header", 0, 0, 0, Len(summaries), t, AnalysisText(0))

\* the minutes counted from the end of the segment
section_FromOne(i, summary) ==
    Part("segment", i, i * SegmentMinutes, (i + 1) * SegmentMinutes, 0, 0, summary)

\* main.py lines 354-358, for the i-th summary (enumerate(summaries, 1))
section(i, summary) == Part("segment", i, (i - 1) * SegmentMinutes, i * SegmentMinutes, 0, 0, summary)

\* main.py lines 352-359
detailed_sections(summaries) == [i \in 1..Len(summaries) |-> section(i, summaries[i])]

\* main.py lines 361-369
report_footer(summaries) == Part("footer", 0, 0, 0, Len(summaries), 0, AnalysisText(0))

\* the footer stamped with the time of generation like the header
create_consolidated_report_StampedFooter(summaries, t) ==
    <<report_header(summaries, t)>> \o detailed_sections(summaries)
        \o <<[report_footer(summaries) EXCEPT !.generated = t]>>

\* main.py lines 335-371, with datetime.now() = t
create_consolidated_report(summaries, t) ==
    <<report_header(summaries, t)>> \o detailed_sections(summaries) \o <<report_footer(summaries)>>

---------------------------------------------------------------------------
(* The background execution process_video_job(job_id, video_path) *)

\* the locals of one execution; pc "none": not scheduled
NoTask ==
    [ pc           |-> "none",
      chunk_paths  |-> <<>>,
      i            |-> 0,
      summaries    |-> <<>>,
      final_report |-> <<>>,
      e            |-> NoExc,
      splitter     |-> "not run",
      session      |-> "ok" ]

\* the decimal digits of n
RECURSIVE Digits(_)
Digits(n) == IF n < 10 THEN <<n>> ELSE Digits(n \div 10) \o <<n % 10>>

\* the code point of a decimal digit
Ord(d) == 48 + d

\* the file name 'chunk_%03d.mp4' of the segment numbered n (line 298), from
\* the first character after the underscore to its dot, as code points:
\* %03d pads the number to three digits and cuts none off
ChunkName(n) ==
    LET d == Digits(n)
    IN [k \in 1..(3 - Len(d)) |-> Ord(0)] \o [k \in 1..Len(d) |-> Ord(d[k])] \o <<46>>

\* a < b for two strings, as Python compares them: by the first character
\* that differs, a proper prefix being less
StrLess(a, b) ==
    \/ \E k \in 1..Len(a) :
          /\ k <= Len(b)
          /\ a[k] < b[k]
          /\ \A i \in 1..(k - 1) : a[i] = b[i]
    \/ Len(a) < Len(b) /\ \A i \in 1..Len(a) : a[i] = b[i]

\* chunk_dir.glob('chunk_*.mp4'), line 307, of the directory holding the files
\* with the numbers S: the files in some order, here that of their numbers
glob(S) ==
    IF S = {} THEN <<>>
    ELSE LET last == CHOOSE x \in S : \A y \in S : y <= x
         IN SelectSeq([k \in 1..(last + 1) |-> k - 1], LAMBDA x : x \in S)

\* sorted(chunk_dir.glob('chunk_*.mp4')), main.py line 307: paths of one
\* directory are sorted by their names
sorted(S) == SortSeq(glob(S), LAMBDA x, y : StrLess(ChunkName(x), ChunkName(y)))

\* the set of elements of a sequence
Range(s) == {s[k] : k \in 1..Len(s)}

\* where the for loop of line 232 goes once index i is reached
LoopPc(i, chunk_paths) == IF i < Len(chunk_paths) THEN "analyze" ELSE "report"


\* the execution of job j is at step pc
At(j, pc) == task[j].pc = pc

\* ... at a step that reads and writes the store, which its session
\* (SessionLocal(), line 206) lets it do
AtStore(j, pc) == task[j].pc = pc /\ task[j].session = "ok"

\* a start that marks the job finished
StatusOnStart_Skipped == "COMPLETE"

\* line 212
StatusOnStart == "PROCESSING"

\* lines 210-213: Update status to PROCESSING
MarkProcessing(j) ==
    IF HasRow(j) THEN Commit(j, [store[j] EXCEPT !.status = StatusOnStart]) ELSE store

process_video_job_start(j) ==
    /\ AtStore(j, "start")
    /\ store' = MarkProcessing(j)
    /\ task' = [task EXCEPT ![j].pc = "chunk"]
    /\ UNCHANGED <<files, del, found, analyzed, now, fresh, requests, offered, aggregation, segmentation>>

\* raise Exception(f"Failed to chunk video: {e.stderr}"), line 312
ChunkError == Exc("Failed to chunk video: {cause}", 0, FfmpegStderr)

\* raise Exception("No video chunks were created"), line 220
NoChunksError == Exc("No video chunks were created", 0, "")

\* the check of line 219 left out
AfterChunking_NoEmptyCheck(t, exited_nonzero, chunk_files) ==
    IF exited_nonzero THEN [t EXCEPT !.pc = "except", !.e = ChunkError, !.splitter = "nonzero exit"]
    ELSE [t EXCEPT !.pc = "total", !.chunk_paths = chunk_files,
                   !.splitter = IF chunk_files = <<>> THEN "no files" ELSE "ok"]

\* lines 217-220 after the splitter ran: exited (CalledProcessError) or not,
\* with the chunk files now in the directory
AfterChunking(t, exited_nonzero, chunk_files) ==
    IF exited_nonzero THEN [t EXCEPT !.pc = "except", !.e = ChunkError, !.splitter = "nonzero exit"]
    ELSE IF chunk_files = <<>> THEN [t EXCEPT !.pc = "except", !.e = NoChunksError, !.splitter = "no files"]
    ELSE [t EXCEPT !.pc = "total", !.chunk_paths = chunk_files, !.splitter = "ok"]

\* lines 215-220 with chunk_video_with_ffmpeg (lines 284-312): the directory
\* is made, the splitter writes n files chunk_000 .. and exits zero or not
\* (it reads the upload: without it nothing is written and it fails)
process_video_job_chunk(j) ==
    /\ At(j, "chunk")
    /\ \E n \in 0..MaxChunks, exited_nonzero \in BOOLEAN :
          /\ j \notin uploads => n = 0 /\ exited_nonzero
          /\ LET written == chunks[j] \cup 0..(n - 1)
             IN /\ chunks' = [chunks EXCEPT ![j] = written]
                /\ task' = [task EXCEPT ![j] = AfterChunking(@, exited_nonzero, sorted(written))]
    /\ chunk_dirs' = chunk_dirs \cup {j}
    /\ UNCHANGED <<store, uploads, reports, del, found, analyzed, now, fresh, requests, offered, aggregation, segmentation>>

\* lines 225-228: Update total chunks count
SetTotal(j) ==
    IF HasRow(j) THEN Commit(j, [store[j] EXCEPT !.total_chunks = Len(task[j].chunk_paths)]) ELSE store

process_video_job_total(j) ==
    /\ AtStore(j, "total")
    /\ store' = SetTotal(j)
    /\ task' = [task EXCEPT ![j].pc = LoopPc(0, task[j].chunk_paths), ![j].i = 0, ![j].summaries = <<>>]
    /\ UNCHANGED <<files, del, found, analyzed, now, fresh, requests, offered, aggregation, segmentation>>

\* one call analyze_video_chunk_with_gemini(chunk_path, chunk_number) and how
\* it ended: with text (cause "") or raising
Call(chunk_number, file, cause) == [chunk_number |-> chunk_number, file |-> file, cause |-> cause]

\* a raising analysis passed on to the outer handler
ChunkFailed_Escalates(t, e) == [t EXCEPT !.pc = "except", !.e = e]

\* a raising analysis that makes the loop pass over the next chunk
ChunkFailed_SkipsNext(t, e) ==
    [t EXCEPT !.summaries = Append(@, FailedSummary(t.i, e)),
              !.i = t.i + 2,
              !.pc = LoopPc(t.i + 2, t.chunk_paths)]

\* line 246 and the next iteration: the except branch of the loop body
ChunkFailed(t, e) ==
    [t EXCEPT !.summaries = Append(@, FailedSummary(t.i, e)),
              !.i = t.i + 1,
              !.pc = LoopPc(t.i + 1, t.chunk_paths)]

\* line 236, then on to lines 239-242
ChunkAnalyzed(t, summary) ==
    [t EXCEPT !.summaries = Append(@, summary), !.pc = "count"]

\* lines 233-236 and 244-246 with analyze_video_chunk_with_gemini (lines
\* 314-333): the chunk file is read and sent; the call returns text or fails
process_video_job_analyze(j) ==
    /\ At(j, "analyze")
    /\ LET t == task[j]
           f == t.chunk_paths[t.i + 1]
       IN \/ /\ f \in chunks[j]
             /\ task' = [task EXCEPT ![j] = ChunkAnalyzed(t, AnalysisText(f))]
             /\ analyzed' = [analyzed EXCEPT ![j] = Append(@, Call(t.i + 1, f, ""))]
          \/ /\ f \in chunks[j]
             /\ task' = [task EXCEPT ![j] = ChunkFailed(t, AnalyzeError(t.i + 1, CapabilityError))]
             /\ analyzed' = [analyzed EXCEPT ![j] = Append(@, Call(t.i + 1, f, CapabilityError))]
          \/ /\ f \notin chunks[j]
             /\ task' = [task EXCEPT ![j] = ChunkFailed(t, AnalyzeError(t.i + 1, NoSuchFile))]
             /\ analyzed' = [analyzed EXCEPT ![j] = Append(@, Call(t.i + 1, f, NoSuchFile))]
    /\ UNCHANGED <<store, files, del, found, now, fresh, requests, offered, aggregation, segmentation>>

\* the count one too far
ProcessedAfter_OffByOne(i) == i + 2

\* line 241
ProcessedAfter(i) == i + 1

\* the count written to the wrong column
SetProcessed_IntoTotal(j) ==
    IF HasRow(j) THEN Commit(j, [store[j] EXCEPT !.total_chunks = ProcessedAfter(task[j].i)]) ELSE store

\* lines 239-242: Update chunks processed count
SetProcessed(j) ==
    IF HasRow(j) THEN Commit(j, [store[j] EXCEPT !.chunks_processed = ProcessedAfter(task[j].i)]) ELSE store

process_video_job_count(j) ==
    /\ AtStore(j, "count")
    /\ store' = SetProcessed(j)
    /\ task' = [task EXCEPT ![j].i = @ + 1, ![j].pc = LoopPc(task[j].i + 1, task[j].chunk_paths)]
    /\ UNCHANGED <<files, del, found, analyzed, now, fresh, requests, offered, aggregation, segmentation>>

\* what aiofiles raises at lines 253-254
WriteError == Exc("report file: {cause}", 0, "I/O error")

\* a write that leaves the file empty
ReportFileAfterWrite_Truncated(final_report) == Some(<<>>)

\* the report file once lines 253-254 wrote final_report to it
ReportFileAfterWrite(final_report) == Some(final_report)

\* lines 249-254: the report is built and written to reports/<id>_report.txt;
\* open(..., 'w') fails, or creates the file and the write fails, or both succeed
process_video_job_report(j) ==
    /\ At(j, "report")
    /\ LET final_report == create_consolidated_report(task[j].summaries, now)
       IN \/ /\ reports' = [reports EXCEPT ![j] = ReportFileAfterWrite(final_report)]
             /\ task' = [task EXCEPT ![j].final_report = final_report, ![j].pc = "complete"]
          \/ /\ reports' = [reports EXCEPT ![j] = Some(<<>>)]
             /\ task' = [task EXCEPT ![j].final_report = final_report, ![j].pc = "except", ![j].e = WriteError]
          \/ /\ reports' = reports
             /\ task' = [task EXCEPT ![j].final_report = final_report, ![j].pc = "except", ![j].e = WriteError]
    /\ UNCHANGED <<store, uploads, chunk_dirs, chunks, del, found, analyzed, now, fresh, requests, offered, aggregation, segmentation>>

\* the COMPLETE commit without the report
MarkComplete_NoReport(j) ==
    IF HasRow(j)
    THEN Commit(j, [store[j] EXCEPT !.status = "COMPLETE",
                                    !.chunks_processed = Len(task[j].chunk_paths)])
    ELSE store

\* the COMPLETE commit keeping the count the loop left
MarkComplete_KeepsCount(j) ==
    IF HasRow(j)
    THEN Commit(j, [store[j] EXCEPT !.status = "COMPLETE",
                                    !.report = Some(task[j].final_report)])
    ELSE store

\* lines 257-262: Update job status to COMPLETE in database
MarkComplete(j) ==
    IF HasRow(j)
    THEN Commit(j, [store[j] EXCEPT !.status = "COMPLETE",
                                    !.report = Some(task[j].final_report),
                                    !.chunks_processed = Len(task[j].chunk_paths)])
    ELSE store

process_video_job_complete(j) ==
    /\ AtStore(j, "complete")
    /\ store' = MarkComplete(j)
    /\ task' = [task EXCEPT ![j].pc = "cleanup"]
    /\ UNCHANGED <<files, del, found, analyzed, now, fresh, requests, offered, aggregation, segmentation>>

\* a cleanup that empties the chunk directory of every job
RemoveChunks_EveryJob(j, kept) == [k \in JobIds |-> IF k = j THEN kept ELSE {}]

\* lines 266-271: os.remove of every chunk path, a failure passed over; kept
\* are the files whose removal failed. Then line 282.
RemoveChunks(j, kept) == [chunks EXCEPT ![j] = (@ \ Range(task[j].chunk_paths)) \cup kept]

\* what os.remove raises on a file it cannot remove
RemoveError == Exc("[Errno 13] Permission denied", 0, "")

\* a cleanup without the inner try: the first removal that fails ends the
\* loop and raises to the outer handler
process_video_job_cleanup_Raises(j) ==
    /\ At(j, "cleanup")
    /\ \E kept \in SUBSET (chunks[j] \cap Range(task[j].chunk_paths)) :
          /\ chunks' = RemoveChunks(j, kept)
          /\ task' = IF kept = {} THEN [task EXCEPT ![j].pc = "done"]
                     ELSE [task EXCEPT ![j].pc = "except", ![j].e = RemoveError]
    /\ UNCHANGED <<store, uploads, reports, chunk_dirs, del, found, analyzed, now, fresh, requests,
                   offered, aggregation, segmentation>>

process_video_job_cleanup(j) ==
    /\ At(j, "cleanup")
    /\ \E kept \in SUBSET (chunks[j] \cap Range(task[j].chunk_paths)) :
          chunks' = RemoveChunks(j, kept)
    /\ task' = [task EXCEPT ![j].pc = "done"]
    /\ UNCHANGED <<store, uploads, reports, chunk_dirs, del, found, analyzed, now, fresh, requests, offered, aggregation, segmentation>>

\* the handler marking the job FAILED without recording the cause
MarkFailed_NoCause(j) ==
    IF HasRow(j) THEN Commit(j, [store[j] EXCEPT !.status = "FAILED"]) ELSE store

\* the handler marking the job FAILED with its count set back
MarkFailed_ResetsCount(j) ==
    IF HasRow(j)
    THEN Commit(j, [store[j] EXCEPT !.status = "FAILED", !.error = Some(str(task[j].e)),
                                    !.chunks_processed = 0])
    ELSE store

\* lines 276-280: Update job status to FAILED in database
MarkFailed(j) ==
    IF HasRow(j)
    THEN Commit(j, [store[j] EXCEPT !.status = "FAILED", !.error = Some(str(task[j].e))])
    ELSE store

\* a handler that runs the job again after marking it FAILED
process_video_job_except_Retries(j) ==
    /\ AtStore(j, "except")
    /\ store' = MarkFailed(j)
    /\ task' = [task EXCEPT ![j].pc = "start"]
    /\ UNCHANGED <<files, del, found, analyzed, now, fresh, requests, offered, aggregation, segmentation>>

\* lines 273-282: the handler of the outer try, then finally
process_video_job_except(j) ==
    /\ AtStore(j, "except")
    /\ store' = MarkFailed(j)
    /\ task' = [task EXCEPT ![j].pc = "done"]
    /\ UNCHANGED <<files, del, found, analyzed, now, fresh, requests, offered, aggregation, segmentation>>

process_video_job(j) ==
    \/ process_video_job_start(j)
    \/ process_video_job_chunk(j)
    \/ process_video_job_total(j)
    \/ process_video_job_analyze(j)
    \/ process_video_job_count(j)
    \/ process_video_job_report(j)
    \/ process_video_job_complete(j)
    \/ process_video_job_cleanup(j)
    \/ process_video_job_except(j)

---------------------------------------------------------------------------
(* The request handlers *)

\* a request served and the response sent: the handler, the job id and the
\* file of the request, the status code, and the body: created for
\* create_analysis_job, job for get_status, jobs for list_jobs (None or <<>>
\* in the responses of the other handlers and in those with an error code)
Response(op, id, file, code, created, job, jobs) ==
    [ op |-> op, id |-> id, file |-> file, code |-> code,
      created |-> created, job |-> job, jobs |-> jobs ]

NoResponse == Response("", "", NoUpload, 0, None, None, <<>>)

\* raise HTTPException(status_code=code, ...)
HTTPException(op, id, file, code) == Response(op, id, file, code, None, None, <<>>)

\* the create_analysis_job request that drew an id: not made yet
NoSub == [pc |-> "none", file |-> NoUpload]

\* POST /v1/analyze, main.py lines 48-60: a file that is no video is turned
\* away before an id is drawn
create_analysis_job_rejected(file) ==
    /\ file \in offered
    /\ ~Accepted(file)
    /\ resp' = HTTPException("create_analysis_job", "", file, 400)
    /\ UNCHANGED <<store, files, task, del, found, analyzed, now, fresh, sub, offered, aggregation, segmentation>>

\* lines 62-75: a fresh id, the upload written to uploads/<id><ext>
create_analysis_job_save(j, file) ==
    /\ file \in offered
    /\ Accepted(file)
    /\ j \in fresh
    /\ fresh' = fresh \ {j}
    /\ uploads' = uploads \cup {j}
    /\ sub' = [sub EXCEPT ![j] = [pc |-> "saved", file |-> file]]
    /\ UNCHANGED <<store, reports, chunk_dirs, chunks, task, del, found, analyzed, now, resp,
                   offered, aggregation, segmentation>>

\* lines 76-77: aiofiles.open or a write raises; the file was not created, or
\* was and stays
create_analysis_job_save_error(j, file) ==
    /\ file \in offered
    /\ Accepted(file)
    /\ j \in fresh
    /\ fresh' = fresh \ {j}
    /\ \E created \in BOOLEAN : uploads' = IF created THEN uploads \cup {j} ELSE uploads
    /\ sub' = [sub EXCEPT ![j] = [pc |-> "failed", file |-> file]]
    /\ resp' = HTTPException("create_analysis_job", j, file, 500)
    /\ UNCHANGED <<store, reports, chunk_dirs, chunks, task, del, found, analyzed, now,
                   offered, aggregation, segmentation>>

\* lines 79-96: Create job record in database
create_analysis_job_commit(j) ==
    /\ sub[j].pc = "saved"
    /\ store' = Insert(j, Job(j, now, sub[j].file))
    /\ sub' = [sub EXCEPT ![j].pc = "committed"]
    /\ UNCHANGED <<files, task, del, found, analyzed, now, fresh, resp, offered, aggregation, segmentation>>

\* the body of the response of lines 105-110
Created(j, file) == [jobId |-> j, statusUrl |-> j, filename |-> file.filename, fileSize |-> file.size]

\* line 102: background_tasks.add_task(process_video_job, job_id, save_path)
Scheduled(j) == [task EXCEPT ![j].pc = "start"]

\* lines 101-110: the execution is scheduled and the job id returned
create_analysis_job_return(j) ==
    /\ sub[j].pc = "committed"
    /\ task' = Scheduled(j)
    /\ sub' = [sub EXCEPT ![j].pc = "returned"]
    /\ resp' = Response("create_analysis_job", j, sub[j].file, 200,
                        Some(Created(j, sub[j].file)), None, <<>>)
    /\ UNCHANGED <<store, files, del, found, analyzed, now, fresh, offered, aggregation, segmentation>>

create_analysis_job(j) ==
    \/ \E file \in Files : create_analysis_job_save(j, file)
    \/ \E file \in Files : create_analysis_job_save_error(j, file)
    \/ create_analysis_job_commit(j)
    \/ create_analysis_job_return(j)

\* DELETE /v1/jobs/{job_id}, main.py lines 171-179: the row is found and the
\* video file removed
delete_job_video(j) ==
    /\ del[j] \in {"idle", "failed"}
    /\ HasRow(j)
    /\ uploads' = uploads \ {j}
    /\ del' = [del EXCEPT ![j] = "report"]
    /\ found' = [found EXCEPT ![j] = Some(store[j].status)]
    /\ UNCHANGED <<store, reports, chunk_dirs, chunks, task, analyzed, now, fresh, requests, offered, aggregation, segmentation>>

\* lines 182-184: Delete the report file
delete_job_report(j) ==
    /\ del[j] = "report"
    /\ reports' = [reports EXCEPT ![j] = NoFile]
    /\ del' = [del EXCEPT ![j] = "chunks"]
    /\ found' = found
    /\ UNCHANGED <<store, uploads, chunk_dirs, chunks, task, analyzed, now, fresh, requests, offered, aggregation, segmentation>>

\* lines 187-190: Delete chunk directory if it exists
delete_job_chunks(j) ==
    /\ del[j] = "chunks"
    /\ chunk_dirs' = chunk_dirs \ {j}
    /\ chunks' = [chunks EXCEPT ![j] = {}]
    /\ del' = [del EXCEPT ![j] = "row"]
    /\ found' = found
    /\ UNCHANGED <<store, uploads, reports, task, analyzed, now, fresh, requests, offered, aggregation, segmentation>>

\* lines 193-196: Delete from database
delete_job_row(j) ==
    /\ del[j] = "row"
    /\ store' = DeleteRow(j)
    /\ del' = [del EXCEPT ![j] = "deleted"]
    /\ found' = found
    /\ resp' = Response("delete_job", j, NoUpload, 200, None, None, <<>>)
    /\ UNCHANGED <<files, task, analyzed, now, fresh, sub, offered, aggregation, segmentation>>

\* lines 198-200: os.remove or shutil.rmtree raises (the file is there and
\* cannot be removed); the row stays and the request ends with 500
delete_job_error(j) ==
    /\ \/ del[j] \in {"idle", "failed"} /\ HasRow(j) /\ j \in uploads
       \/ del[j] = "report" /\ reports[j] # NoFile
       \/ del[j] = "chunks" /\ j \in chunk_dirs
    /\ del' = [del EXCEPT ![j] = "failed"]
    /\ found' = IF del[j] \in {"idle", "failed"}
                 THEN [found EXCEPT ![j] = Some(store[j].status)] ELSE found
    /\ resp' = HTTPException("delete_job", j, NoUpload, 500)
    /\ UNCHANGED <<store, files, task, analyzed, now, fresh, sub, offered, aggregation, segmentation>>

\* a delete that removes the files named after the id before it looks for
\* the row
delete_job_not_found_Sweeps(j) ==
    /\ ~HasRow(j)
    /\ del[j] \in {"idle", "failed", "deleted"}
    /\ uploads' = uploads \ {j}
    /\ reports' = [reports EXCEPT ![j] = NoFile]
    /\ resp' = HTTPException("delete_job", j, NoUpload, 404)
    /\ UNCHANGED <<store, chunk_dirs, chunks, task, del, found, analyzed, now, fresh, sub, offered,
                   aggregation, segmentation>>

\* lines 171-174: no row has the id
delete_job_not_found(j) ==
    /\ ~HasRow(j)
    /\ del[j] \in {"idle", "failed", "deleted"}
    /\ resp' = HTTPException("delete_job", j, NoUpload, 404)
    /\ UNCHANGED <<store, files, task, del, found, analyzed, now, fresh, sub, offered, aggregation, segmentation>>

delete_job(j) ==
    \/ delete_job_video(j)
    \/ delete_job_report(j)
    \/ delete_job_chunks(j)
    \/ delete_job_row(j)
    \/ delete_job_error(j)
    \/ delete_job_not_found(j)

\* `if db_job.report` / `if db_job.error`: the column is set and its text is
\* not the empty one
Truthy(v, empty) == v # None /\ v[1] # empty

\* a status response like a list entry, without report and error
StatusBody_Bare(row) ==
    [ jobId            |-> row.id,
      status           |-> row.status,
      created_at       |-> row.created_at,
      updated_at       |-> row.updated_at,
      filename         |-> row.video_filename,
      fileSize         |-> row.video_size,
      chunks_processed |-> row.chunks_processed,
      total_chunks     |-> row.total_chunks,
      report           |-> None,
      error            |-> None ]

\* lines 120-137: the body of the status response; report and error are
\* None where the response has no such key
StatusBody(row) ==
    [ jobId            |-> row.id,
      status           |-> row.status,
      created_at       |-> row.created_at,
      updated_at       |-> row.updated_at,
      filename         |-> row.video_filename,
      fileSize         |-> row.video_size,
      chunks_processed |-> row.chunks_processed,
      total_chunks     |-> row.total_chunks,
      report           |-> IF row.status = "COMPLETE" /\ Truthy(row.report, <<>>)
                           THEN row.report ELSE None,
      error            |-> IF row.status = "FAILED" /\ Truthy(row.error, NoExc)
                           THEN row.error ELSE None ]

\* lines 114-118 and 137: what get_status(job_id) answers from the store
StatusResponse(j) ==
    IF HasRow(j)
    THEN Response("get_status", j, NoUpload, 200, None, Some(StatusBody(store[j])), <<>>)
    ELSE HTTPException("get_status", j, NoUpload, 404)

\* a status query that commits the row it read
get_status_Touching(j) ==
    /\ resp' = StatusResponse(j)
    /\ store' = IF HasRow(j) THEN Commit(j, store[j]) ELSE store
    /\ UNCHANGED <<files, task, del, found, analyzed, now, fresh, sub, offered, aggregation, segmentation>>

\* GET /v1/analyze/status/{job_id}, main.py lines 112-137: one query of the
\* row, and the response built from the row read
get_status(j) ==
    /\ resp' = StatusResponse(j)
    /\ UNCHANGED <<store, files, task, del, found, analyzed, now, fresh, sub, offered, aggregation, segmentation>>

\* the skip, limit and status parameters of the list requests; a status is
\* None (or "", the same to line 149) or the status to filter by
Skips == {0, 1}
Limits == {2}
StatusFilters == {None, Some("COMPLETE")}

\* lines 154-165: an entry of the list
ListItem(row) ==
    [ jobId            |-> row.id,
      status           |-> row.status,
      created_at       |-> row.created_at,
      updated_at       |-> row.updated_at,
      filename         |-> row.video_filename,
      fileSize         |-> row.video_size,
      chunks_processed |-> row.chunks_processed,
      total_chunks     |-> row.total_chunks ]

\* lines 147-150: the rows the query selects
Selected(status) ==
    {j \in DOMAIN store : status = None \/ store[j].status = status[1]}

\* the orders in which a query without ORDER BY may return the rows S
Orders(S) ==
    {o \in [1..Cardinality(S) -> S] : \A a, b \in 1..Cardinality(S) : a # b => o[a] # o[b]}

\* query.offset(skip).limit(limit).all(), line 152, of the rows in order o,
\* as SQLite (database.py line 5) runs LIMIT ? OFFSET ?: a negative OFFSET
\* is 0 and a negative LIMIT no limit
Page(o, skip, limit) ==
    LET off == IF skip < 0 THEN 0 ELSE skip
        rest == IF Len(o) > off THEN Len(o) - off ELSE 0
        n == IF limit < 0 \/ rest < limit THEN rest ELSE limit
    IN [k \in 1..n |-> o[off + k]]

\* GET /v1/jobs, main.py lines 139-166
list_jobs(skip, limit, status) ==
    /\ \E o \in Orders(Selected(status)) :
          LET page == Page(o, skip, limit)
          IN resp' = Response("list_jobs", "", NoUpload, 200, None, None,
                              [k \in 1..Len(page) |-> ListItem(store[page[k]])])
    /\ UNCHANGED <<store, files, task, del, found, analyzed, now, fresh, sub, offered, aggregation, segmentation>>

\* the clock advances
Tick ==
    /\ now < MaxClock
    /\ now' = now + 1
    /\ UNCHANGED <<store, files, task, del, found, analyzed, fresh, requests, offered, aggregation, segmentation>>

---------------------------------------------------------------------------
(* The specification *)

\* the state once the module is loaded: an empty jobs table, empty
\* directories, no execution scheduled. A behaviour submits one job, which
\* then meets every fault and every interleaving with delete_job.
Init ==
    /\ store = <<>>
    /\ uploads = {}
    /\ reports = [j \in JobIds |-> NoFile]
    /\ chunk_dirs = {}
    /\ chunks = [j \in JobIds |-> {}]
    /\ task = [j \in JobIds |-> NoTask]
    /\ del = [j \in JobIds |-> "idle"]
    /\ found = [j \in JobIds |-> None]
    /\ analyzed = [j \in JobIds |-> <<>>]
    /\ now = 0
    /\ fresh = {"j1"}
    /\ sub = [j \in JobIds |-> NoSub]
    /\ resp = NoResponse
    /\ offered = {Clip}
    /\ summaries_in = <<>>
    /\ reports_out = <<>>
    /\ produced = 0
    /\ chunk_list = None

Next ==
    \/ \E j \in JobIds : create_analysis_job(j)
    \/ \E j \in JobIds : process_video_job(j)
    \/ \E j \in JobIds : delete_job(j)
    \/ Tick

Spec == Init /\ [][Next]_vars

---------------------------------------------------------------------------
(* The specification with the queries *)

\* Spec with clients that ask for the status of a job and list the jobs at
\* any time
NextQueries ==
    \/ Next
    \/ \E j \in JobIds : get_status(j)
    \/ \E skip \in Skips, limit \in Limits, status \in StatusFilters :
          list_jobs(skip, limit, status)

\* the state once the module is loaded, late enough that the clock advances
\* once more
InitQueries ==
    /\ store = <<>>
    /\ uploads = {}
    /\ reports = [j \in JobIds |-> NoFile]
    /\ chunk_dirs = {}
    /\ chunks = [j \in JobIds |-> {}]
    /\ task = [j \in JobIds |-> NoTask]
    /\ del = [j \in JobIds |-> "idle"]
    /\ found = [j \in JobIds |-> None]
    /\ analyzed = [j \in JobIds |-> <<>>]
    /\ now = MaxClock - 1
    /\ fresh = {"j1"}
    /\ sub = [j \in JobIds |-> NoSub]
    /\ resp = NoResponse
    /\ offered = {Clip}
    /\ summaries_in = <<>>
    /\ reports_out = <<>>
    /\ produced = 0
    /\ chunk_list = None

SpecQueries == InitQueries /\ [][NextQueries]_vars

---------------------------------------------------------------------------
(* Two jobs at once *)

\* two clients submit a video each; the two requests and the two
\* executions interleave in every way
InitTwoJobs ==
    /\ store = <<>>
    /\ uploads = {}
    /\ reports = [j \in JobIds |-> NoFile]
    /\ chunk_dirs = {}
    /\ chunks = [j \in JobIds |-> {}]
    /\ task = [j \in JobIds |-> NoTask]
    /\ del = [j \in JobIds |-> "idle"]
    /\ found = [j \in JobIds |-> None]
    /\ analyzed = [j \in JobIds |-> <<>>]
    /\ now = 0
    /\ fresh = JobIds
    /\ sub = [j \in JobIds |-> NoSub]
    /\ resp = NoResponse
    /\ offered = {Clip}
    /\ summaries_in = <<>>
    /\ reports_out = <<>>
    /\ produced = 0
    /\ chunk_list = None

NextTwoJobs ==
    \/ \E j \in JobIds : create_analysis_job(j)
    \/ \E j \in JobIds : process_video_job(j)

SpecTwoJobs == InitTwoJobs /\ [][NextTwoJobs]_vars

---------------------------------------------------------------------------
(* Uploads of every kind *)

\* clients submit any of the files, videos or not; of the execution of the
\* job that one of them creates only the first step is followed
InitSubmit ==
    /\ store = <<>>
    /\ uploads = {}
    /\ reports = [j \in JobIds |-> NoFile]
    /\ chunk_dirs = {}
    /\ chunks = [j \in JobIds |-> {}]
    /\ task = [j \in JobIds |-> NoTask]
    /\ del = [j \in JobIds |-> "idle"]
    /\ found = [j \in JobIds |-> None]
    /\ analyzed = [j \in JobIds |-> <<>>]
    /\ now = 0
    /\ fresh = {"j1"}
    /\ sub = [j \in JobIds |-> NoSub]
    /\ resp = NoResponse
    /\ offered = Files
    /\ summaries_in = <<>>
    /\ reports_out = <<>>
    /\ produced = 0
    /\ chunk_list = None

NextSubmit ==
    \/ \E file \in Files : create_analysis_job_rejected(file)
    \/ \E j \in JobIds : create_analysis_job(j)
    \/ \E j \in JobIds : process_video_job_start(j)

SpecSubmit == InitSubmit /\ [][NextSubmit]_vars

---------------------------------------------------------------------------
(* create_consolidated_report on its own *)

\* longest list of summaries aggregated
MaxSummaries == 3
\* most calls with the same list
MaxCalls == 2

\* the summaries a list is made of: texts returned for two chunk files and
\* the placeholder of a failed analysis
SummaryValues ==
    { AnalysisText(0), AnalysisText(1), FailedSummary(0, AnalyzeError(1, CapabilityError)) }

SummaryLists == UNION {[1..k -> SummaryValues] : k \in 0..MaxSummaries}

\* some list of summaries is aggregated again and again while the clock
\* advances and a job is submitted and started
InitAggregate ==
    /\ store = <<>>
    /\ uploads = {}
    /\ reports = [j \in JobIds |-> NoFile]
    /\ chunk_dirs = {}
    /\ chunks = [j \in JobIds |-> {}]
    /\ task = [j \in JobIds |-> NoTask]
    /\ del = [j \in JobIds |-> "idle"]
    /\ found = [j \in JobIds |-> None]
    /\ analyzed = [j \in JobIds |-> <<>>]
    /\ now = 0
    /\ fresh = {"j1"}
    /\ sub = [j \in JobIds |-> NoSub]
    /\ resp = NoResponse
    /\ offered = {Clip}
    /\ summaries_in \in SummaryLists
    /\ reports_out = <<>>
    /\ produced = 0
    /\ chunk_list = None

\* one call create_consolidated_report(summaries_in), main.py lines 335-371
aggregate ==
    /\ Len(reports_out) < MaxCalls
    /\ reports_out' = Append(reports_out, create_consolidated_report(summaries_in, now))
    /\ UNCHANGED <<store, files, task, del, found, analyzed, now, fresh, requests, offered,
                   summaries_in, segmentation>>

NextAggregate ==
    \/ aggregate
    \/ Tick
    \/ \E j \in JobIds : create_analysis_job(j)
    \/ \E j \in JobIds : process_video_job_start(j)

SpecAggregate == InitAggregate /\ [][NextAggregate]_vars

---------------------------------------------------------------------------
(* The store failing under the background execution *)

\* what db.query(...).first() or db.commit() raises when the database fails
StoreError == Exc("(sqlite3.OperationalError) {cause}", 0, "database is locked")

\* what a session raises on any use after its commit failed and no
\* db.rollback() was issued
PendingRollbackError == Exc("This Session's transaction has been rolled back due to a previous exception during flush", 0, "")

\* the steps of process_video_job that go to the store
StoreSteps == {"start", "total", "count", "complete", "except"}

\* where an exception e raised by the store access of the current step takes
\* the execution: inside the loop body (lines 239-242) to the except of line
\* 244, inside the handler (lines 276-280) out of the function through
\* finally, anywhere else to the handler of line 273
StoreRaised(t, e) ==
    IF t.pc = "count" THEN ChunkFailed(t, e)
    ELSE IF t.pc = "except" THEN [t EXCEPT !.pc = "done"]
    ELSE [t EXCEPT !.pc = "except", !.e = e]

\* the query of the step raises (the session stays usable) or its commit
\* does (the session is left inactive: nothing rolls it back)
store_error(j) ==
    /\ task[j].pc \in StoreSteps
    /\ task[j].session = "ok"
    /\ \E after \in {"ok", "inactive"} :
          task' = [task EXCEPT ![j] = [StoreRaised(task[j], StoreError) EXCEPT !.session = after]]
    /\ UNCHANGED <<store, files, del, found, analyzed, now, fresh, requests, offered, aggregation, segmentation>>

\* a store access through a session left inactive
session_inactive(j) ==
    /\ task[j].pc \in StoreSteps
    /\ task[j].session = "inactive"
    /\ task' = [task EXCEPT ![j] = StoreRaised(task[j], PendingRollbackError)]
    /\ UNCHANGED <<store, files, del, found, analyzed, now, fresh, requests, offered, aggregation, segmentation>>

\* lines 97-99: db.commit() of the new row raises, or db.refresh() does
\* after the row was committed; the request rolls back and ends with 500,
\* the upload stays and nothing is scheduled
create_analysis_job_commit_error(j) ==
    /\ sub[j].pc = "saved"
    /\ \E committed \in BOOLEAN :
          store' = IF committed THEN Insert(j, Job(j, now, sub[j].file)) ELSE store
    /\ sub' = [sub EXCEPT ![j].pc = "failed"]
    /\ resp' = HTTPException("create_analysis_job", j, sub[j].file, 500)
    /\ UNCHANGED <<files, task, del, found, analyzed, now, fresh, offered, aggregation, segmentation>>

NextStoreFault ==
    \/ Next
    \/ \E j \in JobIds : create_analysis_job_commit_error(j)
    \/ \E j \in JobIds : store_error(j)
    \/ \E j \in JobIds : session_inactive(j)

SpecStoreFault == Init /\ [][NextStoreFault]_vars


---------------------------------------------------------------------------
(* The claims *)

Rows == DOMAIN store
Terminal == {"COMPLETE", "FAILED"}

\* the segment sections of a report text
Sections(text) == SelectSeq(text, LAMBDA p : p.part = "segment")

\* a status change the state machine allows (or none)
StatusStep(a, b) ==
    \/ a = b /\ a \in {"PENDING", "PROCESSING", "COMPLETE", "FAILED"}
    \/ a = "PENDING" /\ b = "PROCESSING"
    \/ a = "PROCESSING" /\ b \in Terminal

C2_ReportErrorIff ==
    \A j \in Rows :
        /\ store[j].report # None <=> store[j].status = "COMPLETE"
        /\ store[j].error # None <=> store[j].status = "FAILED"
        /\ ~(store[j].report # None /\ store[j].error # None)

\* a FAILED row carrying its error after some chunks had been counted
C2_Witness ==
    \E j \in Rows :
        store[j].status = "FAILED" /\ store[j].error # None /\ store[j].chunks_processed > 0

\* the fatal conditions: the splitter failed or left no file, or the report
\* could not be written
SegmentationFailed(j) == task[j].splitter \in {"nonzero exit", "no files"}
ReportWriteFailed(j) == task[j].e = WriteError

\* C3: an execution that ended without the splitter failing and without the
\* report write failing left its row COMPLETE, however many analyses raised;
\* a row is FAILED only for one of these two causes; and a raising analysis
\* of chunk i moves the loop on to chunk i+1 (or past the last chunk).
C3_Ended ==
    \A j \in Rows :
        /\ (At(j, "done") /\ ~SegmentationFailed(j) /\ ~ReportWriteFailed(j))
              => store[j].status = "COMPLETE"
        /\ store[j].status = "FAILED" => SegmentationFailed(j) \/ ReportWriteFailed(j)

C3_LoopGoesOn ==
    \A j \in JobIds :
        (/\ Len(analyzed'[j]) = Len(analyzed[j]) + 1
         /\ analyzed'[j][Len(analyzed'[j])].cause # "")
        => /\ task'[j].i = task[j].i + 1
           /\ task'[j].pc = LoopPc(task[j].i + 1, task[j].chunk_paths)
           /\ store' = store

C5_CountedBeforeNext ==
    \A j \in Rows : At(j, "analyze") => store[j].chunks_processed = task[j].i

\* C6: in every row 0 <= chunks_processed <= total_chunks.
C6_ProcessedWithinTotal ==
    \A j \in Rows :
        /\ 0 <= store[j].chunks_processed
        /\ store[j].chunks_processed <= store[j].total_chunks
        /\ store[j].total_chunks = 0 => store[j].chunks_processed = 0

\* a job in the middle of its chunks
C6_Witness ==
    \E j \in Rows :
        /\ store[j].status = "PROCESSING"
        /\ 0 < store[j].chunks_processed
        /\ store[j].chunks_processed < store[j].total_chunks

C8_EndsTerminal ==
    \A j \in Rows :
        At(j, "done") =>
            /\ store[j].status \in Terminal
            /\ store[j].status = "FAILED" => store[j].error # None

\* C9: once the execution of a job has ended, no chunk file of the job is
\* left.
C9_NoChunkFileLeft ==
    \A j \in JobIds : At(j, "done") => chunks[j] = {}

\* the report of a COMPLETE row is the aggregate of the summaries of all
\* chunks, and the report file holds it
ReportPersisted(j) ==
    /\ Len(task[j].summaries) = Len(task[j].chunk_paths)
    /\ \E t \in 0..MaxClock :
          store[j].report = Some(create_consolidated_report(task[j].summaries, t))
    /\ reports[j] = store[j].report

\* C10 as stated: whenever a row is COMPLETE, the report file exists and
\* holds the row's report, the aggregate of the job's summaries.
C10_AsStated ==
    \A j \in Rows : store[j].status = "COMPLETE" => ReportPersisted(j)

\* C10: whenever a row is COMPLETE and no delete request was made for the
\* job, the report file exists and holds the row's report, the aggregate of
\* the summaries of all the job's chunks.
C10_ReportBeforeComplete ==
    \A j \in Rows :
        (store[j].status = "COMPLETE" /\ del[j] = "idle") => ReportPersisted(j)

\* a COMPLETE job with its report on file, generated after the clock moved
C10_Witness ==
    \E j \in Rows :
        /\ store[j].status = "COMPLETE"
        /\ del[j] = "idle"
        /\ reports[j] = store[j].report
        /\ store[j].report[1][1].generated > 0
        /\ Len(task[j].chunk_paths) >= 2

C12_NoHalfWrittenRecord ==
    (resp.op = "get_status" /\ resp.code = 200) =>
        LET body == resp.job[1]
        IN /\ body.status \in {"PENDING", "PROCESSING", "COMPLETE", "FAILED"}
           /\ body.status = "COMPLETE" =>
                 body.report # None /\ body.report[1] # <<>> /\ body.error = None
           /\ body.status = "FAILED" =>
                 body.error # None /\ body.report = None
           /\ body.status \in {"PENDING", "PROCESSING"} =>
                 body.report = None /\ body.error = None

\* a status query served between the COMPLETE commit and the removal of the
\* chunk files answered COMPLETE with the report
C12_Witness ==
    /\ resp.op = "get_status"
    /\ resp.code = 200
    /\ resp.job[1].status = "COMPLETE"
    /\ resp.job[1].report # None
    /\ At(resp.id, "cleanup")

\* the columns of a row that tell how far the job's analysis got
Progress(row) ==
    <<row.status, row.chunks_processed, row.total_chunks, row.report, row.error>>

\* the submit that drew id j returns in this step
Returns(j) == sub[j].pc # "returned" /\ sub'[j].pc = "returned"

\* an execution for id j comes into being in this step
Starts(j) == task[j].pc # "start" /\ task'[j].pc = "start"

\* C13: with two jobs submitted and executed concurrently, in every step and
\* for every id: the submit that returns the id schedules an execution for
\* it, which did not exist before; an execution comes into being only by
\* that return, so once per id and never again after it ended or failed;
\* and the status, counters, report and error of an existing row change
\* only in a step of the execution of that same id.
C13_OneExecutionPerJob ==
    [][\A j \in JobIds :
          /\ Returns(j) => task[j].pc = "none" /\ Starts(j)
          /\ Starts(j) => task[j].pc = "none" /\ Returns(j)
          /\ task[j].pc # "none" => task'[j].pc # "none"
          /\ (j \in Rows /\ j \in DOMAIN store' /\ Progress(store'[j]) # Progress(store[j]))
                => /\ task[j].pc \in StoreSteps
                   /\ task'[j] # task[j]
                   /\ \A k \in JobIds \ {j} : task'[k] = task[k]]_vars

\* both jobs are in the store, one FAILED and ended, the other in the middle
\* of its chunks
C13_Witness ==
    /\ Rows = JobIds
    /\ \E j \in JobIds, k \in JobIds :
          /\ store[j].status = "FAILED" /\ At(j, "done")
          /\ store[k].status = "PROCESSING" /\ store[k].chunks_processed > 0

\* the row of job j is as create_analysis_job made it
AsCreated(j) ==
    /\ store[j].id = j
    /\ store[j].status = "PENDING"
    /\ store[j].chunks_processed = 0
    /\ store[j].total_chunks = 0
    /\ store[j].report = None
    /\ store[j].error = None
    /\ store[j].updated_at = store[j].created_at

\* from the commit of the row to the first step of the execution
BeforeFirstStep(j) ==
    \/ sub[j].pc = "committed"
    \/ sub[j].pc = "returned" /\ At(j, "start")

\* C14: the submit returns an id, and schedules its execution, only after
\* it committed the row of that id; and from that commit until the first
\* step of the execution the row is there, unless a delete request took it
\* away, and is PENDING with chunks_processed = 0, total_chunks = 0,
\* report and error unset and updated_at = created_at.
C14_Created ==
    \A j \in JobIds :
        /\ (resp.op = "create_analysis_job" /\ resp.code = 200 /\ resp.id = j)
              => sub[j].pc = "returned"
        /\ task[j].pc # "none" => sub[j].pc = "returned"
        /\ sub[j].pc \in {"none", "saved", "failed"} => ~HasRow(j)
        /\ BeforeFirstStep(j) =>
              /\ HasRow(j) \/ del[j] # "idle"
              /\ HasRow(j) => AsCreated(j)

\* the submit returned the id, time has passed, and the execution has not
\* taken its first step
C14_Witness ==
    \E j \in Rows :
        /\ sub[j].pc = "returned"
        /\ resp.op = "create_analysis_job" /\ resp.code = 200 /\ resp.id = j
        /\ At(j, "start")
        /\ now > store[j].created_at
        /\ AsCreated(j)

\* a create_analysis_job request is answered in this step
Answered == resp' # resp /\ resp'.op = "create_analysis_job"

\* the file is a video by the type or by the name it was sent with
VideoByTypeOrName(file) ==
    startswith_video(file.content_type) \/ file_extension(file) \in valid_video_extensions

\* C15: a submit is answered 400 exactly when the content type of its file
\* does not start with "video/" and the extension of its name is not one of
\* the video extensions, and such a file is never taken in; the step that
\* answers 400 leaves the store, the files, the executions and the ids as
\* they were; the submit of any other file, of length zero or not, that is
\* answered with an id has added exactly one row, PENDING and recording the
\* file's name and size, and stored its upload.
C15_Validation ==
    [][/\ Answered =>
             /\ resp'.code = 400 <=> ~VideoByTypeOrName(resp'.file)
             /\ resp'.code = 400 =>
                   /\ store' = store /\ files' = files /\ task' = task
                   /\ fresh' = fresh /\ sub' = sub
             /\ resp'.code = 200 =>
                   /\ resp'.id \in DOMAIN store'
                   /\ store'[resp'.id].status = "PENDING"
                   /\ store'[resp'.id].video_filename = resp'.file.filename
                   /\ store'[resp'.id].video_size = resp'.file.size
                   /\ resp'.id \in uploads'
                   /\ Cardinality(DOMAIN store') = 1
       /\ \A j \in JobIds :
             (sub[j].pc = "none" /\ sub'[j].pc # "none") => VideoByTypeOrName(sub'[j].file)]_vars

\* a file of length zero named clip.txt with content type video/mp4 was
\* taken in: its row is PENDING and records the size 0
C15_Witness ==
    /\ resp.op = "create_analysis_job"
    /\ resp.code = 200
    /\ resp.file = UploadFile(<<"clip", "txt">>, <<"video", "mp4">>, 0)
    /\ resp.id \in Rows
    /\ store[resp.id].status = "PENDING"
    /\ store[resp.id].video_size = 0

\* a get_status or delete_job request for id j is answered in this step
AnsweredFor(j) ==
    resp' # resp /\ resp'.op \in {"get_status", "delete_job"} /\ resp'.id = j

\* C16: a status query or a delete request answered for an id that has no
\* row is answered 404, and the step leaves the store and every file as
\* they were; and 404 is answered for no id that has a row.
C16_NotFound ==
    [][\A j \in JobIds :
          /\ (AnsweredFor(j) /\ j \notin DOMAIN store)
                => resp'.code = 404 /\ store' = store /\ files' = files
          /\ (AnsweredFor(j) /\ resp'.code = 404) => j \notin DOMAIN store]_vars

\* a delete request for an id never submitted was answered 404 while the
\* row and the files of a job being processed are in place
C16_Witness ==
    /\ resp.op = "delete_job" /\ resp.code = 404 /\ resp.id = "j2"
    /\ "j1" \in Rows
    /\ store["j1"].status = "PROCESSING"
    /\ "j1" \in uploads
    /\ chunks["j1"] # {}

\* nothing of job j is left: a status query is answered 404, and there is
\* no report file, no chunk directory or chunk file and no stored upload
NothingLeft(j) ==
    /\ StatusResponse(j).code = 404
    /\ reports[j] = NoFile
    /\ j \notin chunk_dirs
    /\ chunks[j] = {}
    /\ j \notin uploads

\* where a delete request that read its row as COMPLETE has ended with the
\* row deleted, nothing of the job is left
DeletedCompleteLeavesNothing ==
    \A j \in JobIds :
        (found[j] = Some("COMPLETE") /\ del[j] = "deleted") => NothingLeft(j)

\* C17: a delete request that read the row of its job as COMPLETE does not
\* end in an error, and once it has ended nothing of the job is left, in
\* that state and in every later one, whatever the execution of the job
\* does after its COMPLETE commit.
C17_DeleteComplete ==
    /\ \A j \in JobIds : found[j] = Some("COMPLETE") => del[j] # "failed"
    /\ DeletedCompleteLeavesNothing

\* C18: every report aggregated from a list of k summaries consists of a
\* header stating k, then k segment sections, then a footer stating k;
\* section i (from 1) is labelled with index i and the minutes (i-1)*5 to
\* i*5 and holds the i-th summary of the list; for k = 3 the minutes are
\* 0-5, 5-10 and 10-15.
C18_ReportShape ==
    \A c \in 1..Len(reports_out) :
        LET report == reports_out[c]
            k == Len(summaries_in)
        IN /\ Len(report) = k + 2
           /\ report[1].part = "header" /\ report[1].total = k
           /\ report[k + 2].part = "footer" /\ report[k + 2].total = k
           /\ \A i \in 1..k :
                 /\ report[i + 1].part = "segment"
                 /\ report[i + 1].index = i
                 /\ report[i + 1].from = (i - 1) * 5
                 /\ report[i + 1].to = i * 5
                 /\ report[i + 1].body = summaries_in[i]
           /\ k = 3 => <<report[2].from, report[2].to, report[3].from, report[3].to,
                         report[4].from, report[4].to>> = <<0, 5, 5, 10, 10, 15>>

\* a list of three summaries, no two of them the same, has been aggregated
C18_Witness ==
    /\ Len(summaries_in) = 3
    /\ Cardinality(Range(summaries_in)) = 3
    /\ Len(reports_out) > 0

\* a report with the time of its generation left out
Unstamped(report) == [p \in 1..Len(report) |-> [report[p] EXCEPT !.generated = 0]]

\* C19: two aggregations of the same list of summaries, made at whatever
\* times and with whatever rows and files in place, return the same
\* sections and the same footer, and headers that differ at most in the
\* time of generation; and a call of the aggregation leaves every row and
\* every file as it was.
C19_Differences ==
    \A a, b \in 1..Len(reports_out) :
        /\ Sections(reports_out[a]) = Sections(reports_out[b])
        /\ reports_out[a][Len(reports_out[a])] = reports_out[b][Len(reports_out[b])]
        /\ Unstamped(reports_out[a]) = Unstamped(reports_out[b])

Queried == resp' # resp /\ resp'.op \in {"get_status", "list_jobs"}

\* C20: a step that answers a status query or a list query leaves every row
\* of the store, updated_at included, and every file as they were.
C20_QueriesReadOnly ==
    [][Queried => store' = store /\ files' = files]_vars

\* the list was answered with a job whose row was last written before the
\* present time, and the row still shows that time
C20_Witness ==
    /\ resp.op = "list_jobs"
    /\ Len(resp.jobs) = 1
    /\ resp.jobs[1].jobId \in Rows
    /\ store[resp.jobs[1].jobId].updated_at < now
    /\ store[resp.jobs[1].jobId].updated_at = resp.jobs[1].updated_at
    /\ store[resp.jobs[1].jobId].status = "PROCESSING"

---------------------------------------------------------------------------
(* Lists of two jobs *)

\* two clients submit a video each and delete their jobs again, the
\* executions take their first step, and the jobs are listed at any time
InitList ==
    /\ store = <<>>
    /\ uploads = {}
    /\ reports = [j \in JobIds |-> NoFile]
    /\ chunk_dirs = {}
    /\ chunks = [j \in JobIds |-> {}]
    /\ task = [j \in JobIds |-> NoTask]
    /\ del = [j \in JobIds |-> "idle"]
    /\ found = [j \in JobIds |-> None]
    /\ analyzed = [j \in JobIds |-> <<>>]
    /\ now = 0
    /\ fresh = JobIds
    /\ sub = [j \in JobIds |-> NoSub]
    /\ resp = NoResponse
    /\ offered = {Clip}
    /\ summaries_in = <<>>
    /\ reports_out = <<>>
    /\ produced = 0
    /\ chunk_list = None

\* the limit and status parameters of the list requests of these clients:
\* a limit is any int (line 142)
ListLimits == {-1, 1, 2}
ListStatusFilters == {None, Some("PENDING"), Some("PROCESSING"), Some("DONE")}

NextList ==
    \/ \E j \in JobIds : create_analysis_job(j)
    \/ \E j \in JobIds : process_video_job_start(j)
    \/ \E j \in JobIds : delete_job(j)
    \/ \E skip \in Skips, limit \in ListLimits, status \in ListStatusFilters :
          list_jobs(skip, limit, status)

SpecList == InitList /\ [][NextList]_vars

\* the entries of a list are entries of rows in the store, each row at most
\* once, and of rows with the status asked for
ListedFromStore(jobs, status) ==
    /\ \A k \in 1..Len(jobs) :
          \E j \in DOMAIN store :
              /\ jobs[k] = ListItem(store[j])
              /\ status # None => store[j].status = status[1]
    /\ \A a, b \in 1..Len(jobs) : a # b => jobs[a].jobId # jobs[b].jobId

\* the rows with the status asked for, counted from the store
Matching(status) ==
    Cardinality({j \in DOMAIN store : status = None \/ store[j].status = status[1]})

\* a list leaves out at least skip of the rows asked for, or all of them
SkipsFirst(jobs, skip, status) ==
    Len(jobs) <= (IF Matching(status) > skip THEN Matching(status) - skip ELSE 0)

\* what holds of every list answered, whatever the limit
ListContract(skip, limit, status) ==
    /\ resp'.code = 200
    /\ ListedFromStore(resp'.jobs, status)
    /\ SkipsFirst(resp'.jobs, skip, status)
    /\ limit >= 0 => Len(resp'.jobs) <= limit

\* every list answered is some page of the rows in the store: a request
\* with a limit that is not negative gets at most limit entries
ListsArePages ==
    [][\A skip \in Skips, limit \in ListLimits, status \in ListStatusFilters :
          list_jobs(skip, limit, status) => ListContract(skip, limit, status)]_vars

\* C21: list_jobs(skip, limit, status) answers 200 with a list, possibly
\* empty, of entries of rows that are in the store when it reads, each with
\* the status asked for when one is asked for, leaving out at least the
\* first skip of them, and with at most limit entries (none when limit
\* is negative).
C21_ListContract ==
    /\ ListsArePages
    /\ [][\A skip \in Skips, limit \in ListLimits, status \in ListStatusFilters :
             list_jobs(skip, limit, status)
                 => Len(resp'.jobs) <= (IF limit < 0 THEN 0 ELSE limit)]_vars

\* once a delete request for a job was answered 200, the job has no row in
\* any later state: nothing creates the row again or writes to it
DeletedStaysDeleted ==
    \A j \in JobIds : del[j] = "deleted" => ~HasRow(j)

\* C22: once a job was deleted, in whatever status, and its execution has
\* ended, there is no report file and no chunk directory of the job, and
\* the job has no row again.
C22_DeleteLeavesNothing ==
    /\ DeletedStaysDeleted
    /\ \A j \in JobIds :
          (del[j] = "deleted" /\ At(j, "done"))
              => reports[j] = NoFile /\ j \notin chunk_dirs

\* the step is one of the execution of job j: its position or locals change
Executes(j) == task[j].pc # "none" /\ task'[j] # task[j]

\* the step leaves the row, the files and the execution of job k as they are
Untouched(k) ==
    /\ HasRow(k) <=> k \in DOMAIN store'
    /\ HasRow(k) => store'[k] = store[k]
    /\ k \in uploads <=> k \in uploads'
    /\ reports'[k] = reports[k]
    /\ k \in chunk_dirs <=> k \in chunk_dirs'
    /\ chunks'[k] = chunks[k]
    /\ task'[k] = task[k]
    /\ analyzed'[k] = analyzed[k]

\* C23: a step of the execution of one job leaves every field of the row of
\* any other job, its upload, its chunk directory and chunk files, its
\* report file and its execution as they are.
C23_JobsIsolated ==
    [][\A j \in JobIds : Executes(j) => \A k \in JobIds \ {j} : Untouched(k)]_vars

\* two jobs with different numbers of chunks ran side by side to COMPLETE
C23_Witness ==
    /\ \A j \in JobIds : HasRow(j) /\ store[j].status = "COMPLETE" /\ At(j, "done")
    /\ store["j1"].total_chunks # store["j2"].total_chunks
    /\ \E k \in 1..Len(analyzed["j1"]) : analyzed["j1"][k].cause # ""
    /\ \A k \in 1..Len(analyzed["j2"]) : analyzed["j2"][k].cause = ""

\* the calls made so far are for the first chunk files in their order, one
\* call each, and as many as the loop has gone through
C24_CallsInOrder ==
    \A j \in JobIds :
        LET t == task[j]
            calls == analyzed[j]
            N == Len(t.chunk_paths)
        IN /\ \A k \in 1..Len(calls) :
                 calls[k].chunk_number = k /\ calls[k].file = t.chunk_paths[k]
           /\ \A a, b \in 1..Len(calls) : a < b => calls[a].file < calls[b].file
           /\ t.pc = "analyze" => Len(calls) = t.i
           /\ t.pc = "count" => Len(calls) = t.i + 1
           /\ t.pc \in {"report", "complete", "cleanup"} => Len(calls) = N
           /\ (t.pc \in {"except", "done"} /\ ~SegmentationFailed(j)) => Len(calls) = N

\* a step makes at most one call, the one the loop is at
C24_OneCallPerStep ==
    \A j \in JobIds :
        \/ analyzed'[j] = analyzed[j]
        \/ /\ At(j, "analyze")
           /\ Len(analyzed'[j]) = Len(analyzed[j]) + 1
           /\ SubSeq(analyzed'[j], 1, Len(analyzed[j])) = analyzed[j]
           /\ task'[j].pc # "analyze" \/ task'[j].i = task[j].i + 1

\* C24: the analysis calls of a job are made one per step, the k-th call
\* for the k-th chunk file in ascending order of the files, each file once
\* whether its call returned or raised, and none is left out when the loop
\* has ended.
C24_SerialAnalysis == []C24_CallsInOrder /\ [][C24_OneCallPerStep]_vars

\* the first of at least three calls raised and the loop went on to the
\* third chunk file
C24_Witness ==
    \E j \in JobIds :
        /\ Len(analyzed[j]) >= 3
        /\ analyzed[j][1].cause # ""
        /\ analyzed[j][3].file = 2
        /\ At(j, "count")

\* C25: total_chunks changes at most once per job: from 0 to the number
\* N >= 1 of chunk files the splitter left, in a step of the execution
\* taken while the status is PROCESSING and before its first analysis call.
C25_WrittenOnce ==
    \A j \in JobIds :
        (HasRow(j) /\ j \in DOMAIN store' /\ store'[j].total_chunks # store[j].total_chunks)
        => /\ store[j].total_chunks = 0
           /\ store'[j].total_chunks = Len(task[j].chunk_paths)
           /\ store'[j].total_chunks >= 1
           /\ store[j].status = "PROCESSING" /\ store'[j].status = "PROCESSING"
           /\ analyzed[j] = <<>>
           /\ At(j, "total")

\* a row is created with total_chunks 0, and once the loop is entered the
\* stored total_chunks is N or the row was not there to take it
C25_TotalBeforeLoop ==
    \A j \in Rows :
        /\ store[j].total_chunks \in {0, Len(task[j].chunk_paths)}
        /\ task[j].pc \in {"none", "start", "chunk", "total"} => store[j].total_chunks = 0

C25_TotalChunksSetOnce == []C25_TotalBeforeLoop /\ [][C25_WrittenOnce]_vars

\* the total of a job of three chunks was written and the job went on to
\* COMPLETE with it
C25_Witness ==
    \E j \in Rows :
        /\ store[j].total_chunks = 3
        /\ store[j].status = "COMPLETE"
        /\ store[j].chunks_processed = 3
        /\ At(j, "cleanup")

\* C26: in every COMPLETE row chunks_processed equals total_chunks, which is
\* the number of chunk files of the job and at least 1, however many of the
\* analyses raised.
C26_CompleteCountsAll ==
    \A j \in Rows :
        store[j].status = "COMPLETE" =>
            /\ store[j].chunks_processed = store[j].total_chunks
            /\ store[j].total_chunks >= 1
            /\ store[j].total_chunks = Len(analyzed[j])

\* a COMPLETE row of a job of two chunks whose analyses both raised, so
\* that no count was committed inside the loop
C26_Witness ==
    \E j \in Rows :
        /\ store[j].status = "COMPLETE"
        /\ store[j].chunks_processed = 2
        /\ store[j].total_chunks = 2
        /\ Len(analyzed[j]) = 2
        /\ \A k \in 1..2 : analyzed[j][k].cause = CapabilityError

\* C27: in every step that keeps a job's row, the stored chunks_processed of
\* the row afterwards is greater than or equal to the one before.
C27_ProcessedNeverDecreases ==
    [][\A j \in JobIds :
          (HasRow(j) /\ j \in DOMAIN store')
              => store'[j].chunks_processed >= store[j].chunks_processed]_vars

\* the count of a job of three chunks stayed at 1 over two raising
\* analyses and the FAILED transition after the report write failed
C27_Witness ==
    \E j \in Rows :
        /\ store[j].status = "FAILED"
        /\ store[j].chunks_processed = 1
        /\ Len(analyzed[j]) = 3
        /\ analyzed[j][1].cause = ""
        /\ analyzed[j][2].cause # "" /\ analyzed[j][3].cause # ""
        /\ At(j, "done")

---------------------------------------------------------------------------
(* chunk_video_with_ffmpeg on its own *)

\* the numbers of chunk files a run of the splitter writes: none, some, and
\* as many as a video of three and a half days has five-minute segments
Produced == (0..120) \cup {999, 1000, 1001, 1002}

\* the splitter wrote chunk_000.mp4, chunk_001.mp4, ... in stream order,
\* produced files in all, and exited zero
InitSegment ==
    /\ store = <<>>
    /\ uploads = {}
    /\ reports = [j \in JobIds |-> NoFile]
    /\ chunk_dirs = {}
    /\ chunks = [j \in JobIds |-> {}]
    /\ task = [j \in JobIds |-> NoTask]
    /\ del = [j \in JobIds |-> "idle"]
    /\ found = [j \in JobIds |-> None]
    /\ analyzed = [j \in JobIds |-> <<>>]
    /\ now = 0
    /\ fresh = {"j1"}
    /\ sub = [j \in JobIds |-> NoSub]
    /\ resp = NoResponse
    /\ offered = {Clip}
    /\ summaries_in = <<>>
    /\ reports_out = <<>>
    /\ produced \in Produced
    /\ chunk_list = None

\* lines 306-308: the chunk files are listed, sorted and returned
chunk_video_with_ffmpeg ==
    /\ chunk_list = None
    /\ chunk_list' = Some(sorted(0..(produced - 1)))
    /\ UNCHANGED <<store, files, task, del, found, analyzed, now, fresh, requests, offered,
                   aggregation, produced>>

NextSegment == chunk_video_with_ffmpeg

SpecSegment == InitSegment /\ [][NextSegment]_vars

\* the list returned holds the files written, each once, the k-th entry
\* being the k-th file the splitter wrote
InStreamOrder == chunk_list[1] = [k \in 1..produced |-> k - 1]

\* up to a thousand chunk files are returned in stream order
StreamOrderUpTo1000 ==
    (chunk_list # None /\ produced <= 1000) => InStreamOrder

\* C28: whatever the number of chunk files the splitter wrote, the list
\* chunk_video_with_ffmpeg returns holds exactly these files in the order in
\* which they were written.
C28_StreamOrder ==
    /\ StreamOrderUpTo1000
    /\ chunk_list # None => InStreamOrder

\* the columns the execution never assigns
Identity(row) ==
    <<row.id, row.created_at, row.video_path, row.video_filename, row.video_size>>

\* a row carries the id it is stored under and the name and size of the
\* file its request was sent
C29_AsSubmitted ==
    \A j \in Rows :
        /\ store[j].id = j
        /\ store[j].video_path = j
        /\ store[j].video_filename = sub[j].file.filename
        /\ store[j].video_size = sub[j].file.size
        /\ store[j].created_at <= now

\* no step changes these columns of a row it keeps
C29_IdentityKept ==
    \A j \in JobIds :
        (HasRow(j) /\ j \in DOMAIN store') => Identity(store'[j]) = Identity(store[j])

\* C29: id, created_at and the input reference (video_path, video_filename,
\* video_size) of a row are in every later state what they were when the
\* row was created, whatever the execution writes to the other columns.
C29_InputImmutable == []C29_AsSubmitted /\ [][C29_IdentityKept]_vars

\* a row the execution wrote all its columns to, at a later time than that
\* of its creation
C29_Witness ==
    \E j \in Rows :
        /\ store[j].status = "COMPLETE"
        /\ store[j].report # None
        /\ store[j].total_chunks >= 2
        /\ store[j].updated_at > store[j].created_at
        /\ store[j].video_filename = Clip.filename

\* a row is created with both timestamps at the time of its commit; a step
\* that changes a row it keeps sets updated_at to the time of the step; no
\* step lowers updated_at; and a COMPLETE or FAILED row keeps the
\* updated_at of the step that made it so
C30_Stamped ==
    \A j \in JobIds :
        /\ (~HasRow(j) /\ j \in DOMAIN store')
              => store'[j].created_at = now /\ store'[j].updated_at = now
        /\ (HasRow(j) /\ j \in DOMAIN store') =>
              /\ store'[j] # store[j] => store'[j].updated_at = now
              /\ store'[j].updated_at >= store[j].updated_at
              /\ (store[j].status \notin Terminal /\ store'[j].status \in Terminal)
                    => store'[j].updated_at = now
              /\ store[j].status \in Terminal => store'[j].updated_at = store[j].updated_at

\* updated_at is not earlier than created_at and not later than the clock
C30_NotBeforeCreated ==
    \A j \in Rows :
        store[j].created_at <= store[j].updated_at /\ store[j].updated_at <= now

\* C30: every commit that changes a row sets its updated_at to the clock's
\* value at that step, so updated_at never decreases, is never earlier
\* than created_at, and in a COMPLETE or FAILED row is the time of the step
\* that made the row COMPLETE or FAILED.
C30_UpdatedAt == []C30_NotBeforeCreated /\ [][C30_Stamped]_vars

\* a FAILED row stamped after its creation, with the clock gone on since
C30_Witness ==
    \E j \in Rows :
        /\ store[j].status = "FAILED"
        /\ store[j].created_at < store[j].updated_at
        /\ store[j].updated_at < now

\* the step that ends the cleanup of job j
CleansUp(j) == At(j, "cleanup") /\ task'[j] # task[j]

\* the cleanup ends the execution whatever removals failed, changes no row,
\* and leaves of the job's chunk files at most those that were there; and
\* no step changes a COMPLETE row it keeps
C31_Swallowed ==
    \A j \in JobIds :
        /\ CleansUp(j) =>
              /\ task'[j].pc = "done"
              /\ task'[j].e = task[j].e
              /\ store' = store
              /\ chunks'[j] \subseteq chunks[j]
        /\ (HasRow(j) /\ store[j].status = "COMPLETE" /\ j \in DOMAIN store')
              => store'[j] = store[j]

\* a row that was COMPLETE when the cleanup began is COMPLETE with its
\* report and without an error during and after the cleanup
C31_CompleteKept ==
    \A j \in Rows :
        (task[j].pc \in {"cleanup", "done"} /\ task[j].final_report # <<>>
            /\ ~ReportWriteFailed(j))
        => /\ store[j].status = "COMPLETE"
           /\ store[j].report = Some(task[j].final_report)
           /\ store[j].error = None

\* C31: a chunk file removal that fails during the cleanup is passed over:
\* the execution ends without raising, the other removals are made, and
\* the row committed COMPLETE stays COMPLETE with its report and without an
\* error, whatever subset of the removals failed.
C31_CleanupFailureSwallowed == []C31_CompleteKept /\ [][C31_Swallowed]_vars

\* the removal of the first of three chunk files failed, the two after it
\* were made, and the ended job is COMPLETE
C31_Witness ==
    \E j \in Rows :
        /\ At(j, "done")
        /\ Len(task[j].chunk_paths) = 3
        /\ chunks[j] = {task[j].chunk_paths[1]}
        /\ del[j] = "idle"
        /\ store[j].status = "COMPLETE"
        /\ store[j].report # None
        /\ store[j].error = None

=============================================================================
